---- MODULE Spec2Model ----
(***************************************************************************)
(* Parsley parser-combinator core (src/src/parser/core.rs).                *)
(*                                                                         *)
(* A parser is a tree of closures; it is modelled as a record naming the   *)
(* function that built it and the values that closure captured.  Parse     *)
(* runs the closure of a node on an input slice.  Input slices are         *)
(* sequences of one-character strings.                                     *)
(***************************************************************************)
EXTENDS Naturals, Sequences, FiniteSets

\* ------------------------------------------------------------------ bounds
\* longest input drawn for a combinator tree
MaxLen == 3
\* deepest nesting of combinator calls around a primitive
MaxDepth == 2
\* pushes onto v the stepped repetition loop is followed for
MaxIter == 4
\* longest input drawn for a primitive parser on its own
MaxTokLen == 3

\* --------------------------------------------------------------- strings
Take(s, n) == SubSeq(s, 1, n)
\* &buf[n..]
Drop(s, n) == SubSeq(s, n + 1, Len(s))

IsSuffix(s, i) == Len(s) <= Len(i) /\ Drop(i, Len(i) - Len(s)) = s
StartsWith(i, s) == Len(s) <= Len(i) /\ Take(i, Len(s)) = s

\* --------------------------------------------------------------- results
\* ParseRes: Ok((remaining input, value))
Ok(buf, val) == [tag |-> "Ok", buf |-> buf, val |-> val]
\* a call that never returns (a repetition loop that makes no progress)
Hang == [tag |-> "Hang"]
Msg(fmt, arg) == [fmt |-> fmt, arg |-> arg]
par_err_s(buf, msg) == [tag |-> "Err", buf |-> buf, msg |-> msg]
par_err(buf, text) == par_err_s(buf, Msg(text, <<>>))

\* values
Str(s) == [t |-> "str", s |-> s]
Pair(a, b) == [t |-> "pair", a |-> a, b |-> b]
Some(v) == [t |-> "some", v |-> v]
None == [t |-> "none"]
Vec(items) == [t |-> "vec", items |-> items]
Num(int, frac) == [t |-> "f64", int |-> int, frac |-> frac]
Tagged(v) == [t |-> "mapped", v |-> v]

\* ------------------------------------------------------------ characters
Letters == {"a", "b", "c", "e", "f", "i", "l", "r", "s", "t", "u", "v", "x"}
AsciiDigits == {"0", "1", "2", "3", "4", "5", "6", "7", "8", "9"}
is_ascii_digit(c) == c \in AsciiDigits
is_alphanumeric(c) == c \in Letters \/ c \in AsciiDigits

S_true == <<"t", "r", "u", "e">>
S_false == <<"f", "a", "l", "s", "e">>
S_if == <<"i", "f">>
S_eval == <<"e", "v", "a", "l">>
KEYWORDS == <<S_true, S_false, S_if, S_eval>>

num_rule(c) == is_ascii_digit(c) \/ c = "."
ident_rule(c) == is_alphanumeric(c) \/ c = "_"
\* rule: Fn(char) -> bool, passed by name
Rule(rule, c) ==
    CASE rule = "num_rule" -> num_rule(c)
      [] rule = "ident_rule" -> ident_rule(c)
      [] rule = "is_i" -> c = "i"

\* --------------------------------------------------- parser constructors
parse_literal(lit) == [op |-> "parse_literal", lit |-> lit]
parse_literals(lits) == [op |-> "parse_literals", lits |-> lits]
parse_tok_with_rule(rule) == [op |-> "parse_tok_with_rule", rule |-> rule]
parse_number == [op |-> "parse_number"]
parse_identifier == [op |-> "parse_identifier"]
option(p) == [op |-> "option", p |-> p]
and(a, b) == [op |-> "and", a |-> a, b |-> b]
or(parser1, parser2) == [op |-> "or", parser1 |-> parser1, parser2 |-> parser2]
zero_or_more(p) == [op |-> "zero_or_more", p |-> p]
one_or_more(p) == [op |-> "one_or_more", p |-> p]
map(parser, functor) == [op |-> "map", parser |-> parser, functor |-> functor]
prefix(s, p) == map(and(parse_literal(s), p), "snd")
\* mutant: suffix keeps the literal's value instead of p's
suffix_keeps_literal(s, p) == map(and(p, parse_literal(s)), "snd")
suffix(s, p) == map(and(p, parse_literal(s)), "fst")
surround(a, b, p) == prefix(a, suffix(b, p))

\* functor(out): the closures handed to map
Apply(functor, out) ==
    CASE functor = "snd" -> out.b
      [] functor = "fst" -> out.a
      [] functor = "tag" -> Tagged(out)

\* ------------------------------------------------------------ primitives
\* mutant: the tuple of the success is built the wrong way round
parse_literal_closure_swapped(lit, buf) ==
    IF Len(lit) <= Len(buf) /\ Take(buf, Len(lit)) = lit
    THEN Ok(lit, Str(Drop(buf, Len(lit))))
    ELSE par_err_s(buf, Msg("Literal '{}' not found", lit))

\* mutant: a literal as long as the whole input is out of range
parse_literal_closure_strict(lit, buf) ==
    IF Len(lit) < Len(buf) /\ Take(buf, Len(lit)) = lit
    THEN Ok(Drop(buf, Len(lit)), Str(lit))
    ELSE par_err_s(buf, Msg("Literal '{}' not found", lit))

parse_literal_closure(lit, buf) ==
    IF Len(lit) <= Len(buf) /\ Take(buf, Len(lit)) = lit
    THEN Ok(Drop(buf, Len(lit)), Str(lit))
    ELSE par_err_s(buf, Msg("Literal '{}' not found", lit))

RECURSIVE first_match(_, _, _)
\* for lit in lits.iter(): the index of the first literal buf starts with, 0 if none
first_match(lits, k, buf) ==
    IF k > Len(lits) THEN 0
    ELSE IF Len(lits[k]) <= Len(buf) /\ Take(buf, Len(lits[k])) = lits[k] THEN k
    ELSE first_match(lits, k + 1, buf)

parse_literals_closure(lits, buf) ==
    LET k == first_match(lits, 1, buf) IN
    IF k > 0
    THEN Ok(Drop(buf, Len(lits[k])), Str(Take(buf, Len(lits[k]))))
    ELSE par_err_s(buf, Msg("Literal '{:?}' not found", lits))

RECURSIVE scan(_, _, _)
\* while let Some(c) = iter.next(): the number of leading characters, from
\* position k on, that satisfy rule
scan(rule, buf, k) ==
    IF k <= Len(buf) /\ Rule(rule, buf[k]) THEN scan(rule, buf, k + 1) ELSE k - 1

parse_tok_with_rule_closure(rule, buf) ==
    IF ~(Len(buf) > 0 /\ Rule(rule, buf[1]))
    THEN par_err(buf, "First character does not satisfy rule")
    ELSE LET tok == Take(buf, scan(rule, buf, 2)) IN
         IF tok = <<>>
         THEN par_err(buf, "Empty Token.")
         ELSE Ok(Drop(buf, Len(tok)), Str(tok))

DigitVal(c) == CHOOSE n \in 0..9 : <<"0", "1", "2", "3", "4", "5", "6", "7", "8", "9">>[n + 1] = c
RECURSIVE DigitsVal(_)
DigitsVal(ds) ==
    IF ds = <<>> THEN 0
    ELSE 10 * DigitsVal(Take(ds, Len(ds) - 1)) + DigitVal(ds[Len(ds)])
RECURSIVE StripZeros(_)
StripZeros(ds) ==
    IF ds # <<>> /\ ds[Len(ds)] = "0" THEN StripZeros(Take(ds, Len(ds) - 1)) ELSE ds
Dots(tok) == {k \in 1..Len(tok) : tok[k] = "."}
\* tok.parse::<f64>() of a token of digits and dots: digits with at most one
\* dot and at least one digit; the value is the integer part and the
\* significant fraction digits
f64_parse(tok) ==
    IF Cardinality(Dots(tok)) > 1 \/ Len(tok) = Cardinality(Dots(tok))
    THEN [ok |-> FALSE]
    ELSE LET d == IF Dots(tok) = {} THEN Len(tok) + 1 ELSE CHOOSE k \in Dots(tok) : TRUE IN
         [ok |-> TRUE,
          num |-> Num(DigitsVal(Take(tok, d - 1)), StripZeros(Drop(tok, d)))]

parse_number_closure(buf) ==
    LET r == parse_tok_with_rule_closure("num_rule", buf) IN
    IF r.tag # "Ok" THEN r
    ELSE IF f64_parse(r.val.s).ok
    THEN Ok(r.buf, f64_parse(r.val.s).num)
    ELSE par_err(r.buf, "could not parse into number")

\* mutant: the post-checks report the input the identifier started at
parse_identifier_closure_rewind(input) ==
    LET r == parse_tok_with_rule_closure("ident_rule", input) IN
    IF r.tag # "Ok" THEN r
    ELSE IF is_ascii_digit(r.val.s[1])
    THEN par_err(input, "identifier cannot start with digit")
    ELSE IF \E k \in 1..Len(KEYWORDS) : KEYWORDS[k] = r.val.s
    THEN par_err(input, "found keyword, cannot be used as identifier")
    ELSE Ok(r.buf, r.val)

parse_identifier_closure(input) ==
    LET r == parse_tok_with_rule_closure("ident_rule", input) IN
    IF r.tag # "Ok" THEN r
    ELSE IF is_ascii_digit(r.val.s[1])
    THEN par_err(r.buf, "identifier cannot start with digit")
    ELSE IF \E k \in 1..Len(KEYWORDS) : KEYWORDS[k] = r.val.s
    THEN par_err(r.buf, "found keyword, cannot be used as identifier")
    ELSE Ok(r.buf, r.val)

\* ----------------------------------------------------------- combinators
RECURSIVE Parse(_, _)

\* mutant: the else branch sees the buffer p's failure carried
option_closure_leak(p, buf) ==
    LET r == Parse(p, buf) IN
    IF r.tag = "Hang" THEN Hang
    ELSE IF r.tag = "Ok" THEN Ok(r.buf, Some(r.val))
    ELSE Ok(r.buf, None)

option_closure(p, buf) ==
    LET r == Parse(p, buf) IN
    IF r.tag = "Hang" THEN Hang
    ELSE IF r.tag = "Ok" THEN Ok(r.buf, Some(r.val))
    ELSE Ok(buf, None)

\* mutant: b's failure is reported at the input and started from
and_closure_rewind(a, b, buf) ==
    LET ra == Parse(a, buf) IN
    IF ra.tag # "Ok" THEN ra
    ELSE LET rb == Parse(b, ra.buf) IN
         IF rb.tag = "Err" THEN par_err_s(buf, rb.msg)
         ELSE IF rb.tag # "Ok" THEN rb
         ELSE Ok(rb.buf, Pair(ra.val, rb.val))

and_closure(a, b, buf) ==
    LET ra == Parse(a, buf) IN
    IF ra.tag # "Ok" THEN ra
    ELSE LET rb == Parse(b, ra.buf) IN
         IF rb.tag # "Ok" THEN rb
         ELSE Ok(rb.buf, Pair(ra.val, rb.val))

\* mutant: when both fail, the first failure is reported
or_closure_first_failure(parser1, parser2, input) ==
    LET r1 == Parse(parser1, input) IN
    IF r1.tag = "Hang" THEN Hang
    ELSE IF r1.tag = "Ok" THEN r1
    ELSE IF Parse(parser2, input).tag = "Err" THEN r1
    ELSE Parse(parser2, input)

or_closure(parser1, parser2, input) ==
    LET r1 == Parse(parser1, input) IN
    IF r1.tag = "Hang" THEN Hang
    ELSE IF r1.tag = "Ok" THEN r1
    ELSE Parse(parser2, input)

RECURSIVE while_let(_, _, _)
\* while let Ok((buf, out)) = p.parse(buf_out) { v.push(out); buf_out = buf; }
\* The state the loop is left in, or Hang.  p is a pure function of its
\* input, so an iteration that leaves buf_out as it was is repeated forever.
while_let(p, buf_out, v) ==
    LET r == Parse(p, buf_out) IN
    IF r.tag = "Hang" THEN Hang
    ELSE IF r.tag = "Err" THEN [tag |-> "Exit", buf_out |-> buf_out, v |-> v]
    ELSE IF r.buf = buf_out THEN Hang
    ELSE while_let(p, r.buf, Append(v, r.val))

\* zero_or_more, after its loop
zero_or_more_exit(buf_out, v) == Ok(buf_out, Vec(v))

zero_or_more_closure(p, buf) ==
    LET l == while_let(p, buf, <<>>) IN
    IF l.tag = "Hang" THEN Hang
    ELSE zero_or_more_exit(l.buf_out, l.v)

\* mutant: the emptiness check is missing
one_or_more_exit_unchecked(buf, buf_out, v) == Ok(buf_out, Vec(v))

\* one_or_more, after its loop
one_or_more_exit(buf, buf_out, v) ==
    IF v = <<>>
    THEN par_err(buf, "none of pattern found in 'one_or_more'")
    ELSE Ok(buf_out, Vec(v))

one_or_more_closure(p, buf) ==
    LET l == while_let(p, buf, <<>>) IN
    IF l.tag = "Hang" THEN Hang
    ELSE one_or_more_exit(buf, l.buf_out, l.v)

\* mutant: a failure is rebuilt at the input map was given
map_closure_rebuilds(parser, functor, buf) ==
    LET r == Parse(parser, buf) IN
    IF r.tag = "Ok" THEN Ok(r.buf, Apply(functor, r.val))
    ELSE IF r.tag = "Err" THEN par_err_s(buf, r.msg)
    ELSE r

map_closure(parser, functor, buf) ==
    LET r == Parse(parser, buf) IN
    IF r.tag = "Ok" THEN Ok(r.buf, Apply(functor, r.val)) ELSE r

\* p.parse(buf): call the closure of p
Parse(p, buf) ==
    CASE p.op = "parse_literal" -> parse_literal_closure(p.lit, buf)
      [] p.op = "parse_literals" -> parse_literals_closure(p.lits, buf)
      [] p.op = "parse_tok_with_rule" -> parse_tok_with_rule_closure(p.rule, buf)
      [] p.op = "parse_number" -> parse_number_closure(buf)
      [] p.op = "parse_identifier" -> parse_identifier_closure(buf)
      [] p.op = "option" -> option_closure(p.p, buf)
      [] p.op = "and" -> and_closure(p.a, p.b, buf)
      [] p.op = "or" -> or_closure(p.parser1, p.parser2, buf)
      [] p.op = "zero_or_more" -> zero_or_more_closure(p.p, buf)
      [] p.op = "one_or_more" -> one_or_more_closure(p.p, buf)
      [] p.op = "map" -> map_closure(p.parser, p.functor, buf)

\* -------------------------------------------------------------- the state
VARIABLES
    parser,     \* the parser built so far
    depth,      \* combinator calls nested around its primitive
    call,       \* the call that built it: the function and its arguments
    pc,         \* "build", "loop" (inside a repetition loop), "done", "hung"
    input,      \* the slice the parser was invoked with
    v,          \* the repetition loop's vector
    buf_out,    \* the repetition loop's cursor
    result      \* what the invocation returned

vars == <<parser, depth, call, pc, input, v, buf_out, result>>

Alphabet == {"i", "1"}
Strings(A, n) == UNION {[1..k -> A] : k \in 0..n}
Inputs == Strings(Alphabet, MaxLen)

Leaves ==
    {parse_literal(<<>>), parse_literal(<<"i">>), parse_literals(<<<<"i", "1">>, <<"i">>>>),
     parse_number, parse_identifier}
\* the other operand of and, of or
AndOperands == {parse_identifier}
OrOperands == {parse_literal(<<"i">>)}
\* the literals handed to surround, to prefix, to suffix
Delims == {<<"i">>, <<"1">>}
PrefixLits == {<<"i">>}
SuffixLits == {<<"1">>}

NoResult == [tag |-> "None"]
IsLoop(p) == p.op \in {"zero_or_more", "one_or_more"}

Init ==
    /\ parser \in Leaves
    /\ depth = 0
    /\ call = [fn |-> parser.op]
    /\ pc = "build"
    /\ input = <<>>
    /\ v = <<>>
    /\ buf_out = <<>>
    /\ result = NoResult

\* a combinator function is called on the parser built so far
Build(p, c) ==
    /\ pc = "build"
    /\ depth < MaxDepth
    /\ parser' = p
    /\ call' = c
    /\ depth' = depth + 1
    /\ UNCHANGED <<pc, input, v, buf_out, result>>

Option == Build(option(parser), [fn |-> "option", p |-> parser])

And ==
    \E q \in AndOperands :
        \/ Build(and(parser, q), [fn |-> "and", a |-> parser, b |-> q])
        \/ Build(and(q, parser), [fn |-> "and", a |-> q, b |-> parser])

Or ==
    \E q \in OrOperands :
        \/ Build(or(parser, q), [fn |-> "or", parser1 |-> parser, parser2 |-> q])
        \/ Build(or(q, parser), [fn |-> "or", parser1 |-> q, parser2 |-> parser])

ZeroOrMore == Build(zero_or_more(parser), [fn |-> "zero_or_more", p |-> parser])

OneOrMore == Build(one_or_more(parser), [fn |-> "one_or_more", p |-> parser])

Prefix == \E s \in PrefixLits : Build(prefix(s, parser), [fn |-> "prefix", s |-> s, p |-> parser])

Suffix == \E s \in SuffixLits : Build(suffix(s, parser), [fn |-> "suffix", s |-> s, p |-> parser])

Surround ==
    \E a \in Delims, b \in Delims :
        Build(surround(a, b, parser), [fn |-> "surround", a |-> a, b |-> b, p |-> parser])

Map == Build(map(parser, "tag"), [fn |-> "map", parser |-> parser, functor |-> "tag"])

\* parser.parse(i), for a parser whose closure is not a repetition loop
Invoke(i) ==
    /\ pc = "build"
    /\ ~IsLoop(parser)
    /\ input' = i
    /\ result' = Parse(parser, i)
    /\ pc' = IF result'.tag = "Hang" THEN "hung" ELSE "done"
    /\ UNCHANGED <<parser, depth, call, v, buf_out>>

Call == pc = "build" /\ ~IsLoop(parser) /\ \E i \in Inputs : Invoke(i)

\* zero_or_more / one_or_more: let mut v = vec![]; let mut buf_out = buf;
LoopEnter ==
    /\ pc = "build"
    /\ IsLoop(parser)
    /\ \E i \in Inputs :
        /\ input' = i
        /\ v' = <<>>
        /\ buf_out' = i
    /\ pc' = "loop"
    /\ UNCHANGED <<parser, depth, call, result>>

\* while let Ok((buf, out)) = p.parse(buf_out) { v.push(out); buf_out = buf; }
\* The code has no limit on v; the loop is followed for MaxIter pushes.
LoopIter ==
    /\ pc = "loop"
    /\ Len(v) < MaxIter
    /\ LET r == Parse(parser.p, buf_out) IN
        /\ r.tag = "Ok"
        /\ v' = Append(v, r.val)
        /\ buf_out' = r.buf
    /\ UNCHANGED <<parser, depth, call, pc, input, result>>

ZeroOrMoreExit ==
    /\ pc = "loop"
    /\ parser.op = "zero_or_more"
    /\ Parse(parser.p, buf_out).tag = "Err"
    /\ result' = zero_or_more_exit(buf_out, v)
    /\ pc' = "done"
    /\ UNCHANGED <<parser, depth, call, input, v, buf_out>>

OneOrMoreExit ==
    /\ pc = "loop"
    /\ parser.op = "one_or_more"
    /\ Parse(parser.p, buf_out).tag = "Err"
    /\ result' = one_or_more_exit(input, buf_out, v)
    /\ pc' = "done"
    /\ UNCHANGED <<parser, depth, call, input, v, buf_out>>

Next ==
    \/ Option \/ And \/ Or \/ ZeroOrMore \/ OneOrMore
    \/ Prefix \/ Suffix \/ Surround \/ Map
    \/ Call \/ LoopEnter \/ LoopIter \/ ZeroOrMoreExit \/ OneOrMoreExit

Spec == Init /\ [][Next]_vars

\* ------------------------------------------- primitives on their own
PrimAlphabet == {"i", "f", "1", "_", " ", "."}
Scenarios ==
    {<<"3", ".", "1", "4", "a", "b", "c">>, <<"a", "b", "c">>,
     <<"t", "r", "u", "e", "1", "2", "3">>, S_true, S_false, S_eval,
     <<"1", "a", "b", "c">>, <<"e", "v", "a", "l", " ", "x">>,
     <<"a", "b", "a", "b", "a", "b", "_">>, <<"1", ".", "2", ".", "3">>,
     <<"0", "1", ".", "5", "0">>}
PrimInputs == Strings(PrimAlphabet, MaxTokLen) \cup Scenarios
PrimLits == Strings({"i", "f"}, 2) \cup {S_eval, <<"a", "b">>}
PrimParsers ==
    {parse_literal(lit) : lit \in PrimLits}
        \cup {parse_literals(<<<<"i">>, S_if>>), parse_literals(<<S_if, <<"i">>, S_eval>>)}
        \cup {parse_tok_with_rule(rule) : rule \in {"num_rule", "ident_rule", "is_i"}}
        \cup {parse_number, parse_identifier}

InitPrim ==
    /\ parser \in PrimParsers
    /\ depth = 0
    /\ call = [fn |-> parser.op]
    /\ pc = "build"
    /\ input = <<>>
    /\ v = <<>>
    /\ buf_out = <<>>
    /\ result = NoResult

CallLiteral == pc = "build" /\ parser.op = "parse_literal" /\ \E i \in PrimInputs : Invoke(i)
CallLiterals == pc = "build" /\ parser.op = "parse_literals" /\ \E i \in PrimInputs : Invoke(i)
CallTokWithRule == pc = "build" /\ parser.op = "parse_tok_with_rule" /\ \E i \in PrimInputs : Invoke(i)
CallNumber == pc = "build" /\ parser.op = "parse_number" /\ \E i \in PrimInputs : Invoke(i)
CallIdentifier == pc = "build" /\ parser.op = "parse_identifier" /\ \E i \in PrimInputs : Invoke(i)

NextPrim == CallLiteral \/ CallLiterals \/ CallTokWithRule \/ CallNumber \/ CallIdentifier

SpecPrim == InitPrim /\ [][NextPrim]_vars

\* ---------------------------------------------------------------- claims
Returned == pc = "done"

\* the stepped loop and the closure agree on every finished invocation
SteppedAgrees == Returned => result = Parse(parser, input)

\* C1: every iteration of the repetition loop of zero_or_more / one_or_more
\* strictly shortens the remaining input, so the loop has pushed at most
\* Len(input) values, whatever library parser p is.
C1_LoopBoundedByInput == pc = "loop" => Len(v) <= Len(input)

\* C2: option(p) never fails; when p succeeds with (rest, v) it returns
\* (rest, Some(v)); when p fails it returns (original input, None), whatever
\* position p's failure carried.
C2_OptionNeverFails ==
    (pc \in {"done", "hung"} /\ call.fn = "option") =>
        LET r == Parse(call.p, input) IN
        /\ result.tag # "Err"
        /\ r.tag = "Ok" => result = Ok(r.buf, Some(r.val))
        /\ r.tag = "Err" => result = Ok(input, None)

C2_Witness ==
    /\ Returned /\ call.fn = "option"
    /\ Parse(call.p, input).tag = "Err"
    /\ Parse(call.p, input).buf # input
    /\ result = Ok(input, None)

\* C3: or(p1, p2) returns p1's success when p1 succeeds, without consulting
\* p2; when p1 fails it returns exactly what p2 returns on the same input.
\* So it fails only if both fail, and then with p2's failure.
C3_OrSecondOnSameInput ==
    (pc \in {"done", "hung"} /\ call.fn = "or") =>
        LET r1 == Parse(call.parser1, input)
            r2 == Parse(call.parser2, input) IN
        /\ r1.tag = "Ok" => result = r1
        /\ r1.tag = "Err" => result = r2
        /\ result.tag = "Err" => (r1.tag = "Err" /\ r2.tag = "Err" /\ result = r2)

C3_Witness ==
    /\ Returned /\ call.fn = "or"
    /\ Parse(call.parser1, input).tag = "Err"
    /\ Parse(call.parser1, input).buf # input
    /\ Parse(call.parser2, input).tag = "Err"
    /\ Parse(call.parser2, input) # Parse(call.parser1, input)
    /\ result = Parse(call.parser2, input)

RECURSIVE Reached(_, _, _)
RECURSIVE ReachedInLoop(_, _, _)
\* The invocations <<q, b, q's result on b>> made while p runs on buf that
\* have only combinators of T above them inside p.
Reached(p, buf, T) ==
    LET r == Parse(p, buf) IN
    {<<p, buf, r>>} \cup
        IF p.op \notin T THEN {}
        ELSE IF p.op = "and"
        THEN LET ra == Parse(p.a, buf) IN
             Reached(p.a, buf, T) \cup
                 (IF ra.tag = "Ok" THEN Reached(p.b, ra.buf, T) ELSE {})
        ELSE IF p.op = "map" THEN Reached(p.parser, buf, T)
        ELSE IF IsLoop(p) THEN ReachedInLoop(p.p, buf, T)
        ELSE {}
ReachedInLoop(q, b, T) ==
    LET r == Parse(q, b) IN
    Reached(q, b, T) \cup
        (IF r.tag = "Ok" /\ r.buf # b THEN ReachedInLoop(q, r.buf, T) ELSE {})

Surfaces(T) ==
    \A c \in Reached(parser, input, T) : c[3].tag = "Err" => result = c[3]

\* C4 as claimed: in a tree built from and, map, prefix, suffix, surround,
\* zero_or_more and one_or_more, the failure of any sub-parser that has no
\* or / option above it is the result of the whole tree, unchanged.
C4_FailureSurfacesThroughLoops ==
    Returned => Surfaces({"and", "map", "zero_or_more", "one_or_more"})

\* C4 as amended: in a tree built from and, map, prefix, suffix and surround,
\* the failure of any sub-parser that has none of or, option, zero_or_more,
\* one_or_more above it is the result of the whole tree, with the same
\* position and the same message.
C4_FailureSurfaces == Returned => Surfaces({"and", "map"})

C4_Witness ==
    /\ Returned /\ depth = MaxDepth
    /\ \E c \in Reached(parser, input, {"and", "map"}) :
        /\ c[1].op \notin {"and", "map"}
        /\ c[2] # input
        /\ c[3].tag = "Err"
        /\ c[3].buf # c[2]
        /\ result = c[3]

\* C5: and(pa, pb) succeeds iff pa succeeds on i with (r1, a) and pb succeeds
\* on r1 with (r2, b), returning (r2, (a, b)).  pa's failure is returned
\* unchanged and pb is not run; pb's failure is returned unchanged, with the
\* position pb reported on r1.
C5_AndSequences ==
    (pc \in {"done", "hung"} /\ call.fn = "and") =>
        LET ra == Parse(call.a, input) IN
        /\ ra.tag # "Ok" => result = ra
        /\ ra.tag = "Ok" =>
            LET rb == Parse(call.b, ra.buf) IN
            /\ rb.tag # "Ok" => result = rb
            /\ rb.tag = "Ok" => result = Ok(rb.buf, Pair(ra.val, rb.val))
        /\ result.tag = "Ok" <=> (ra.tag = "Ok" /\ Parse(call.b, ra.buf).tag = "Ok")

C5_Witness ==
    /\ Returned /\ call.fn = "and"
    /\ Parse(call.a, input).tag = "Ok"
    /\ Parse(call.a, input).buf # input
    /\ LET rb == Parse(call.b, Parse(call.a, input).buf) IN
        /\ rb.tag = "Err"
        /\ rb.buf # Parse(call.a, input).buf
        /\ result = rb

\* C6: one_or_more(p) fails iff p fails on the input itself, and then the
\* failure carries the original input; otherwise it returns what
\* zero_or_more(p) returns.  zero_or_more(p) never fails, and returns the
\* empty sequence and the original input when p fails on it.
C6_OneOrMoreVsZeroOrMore ==
    /\ (Returned /\ call.fn = "one_or_more") =>
        LET r == Parse(call.p, input) IN
        /\ result.tag = "Err" <=> r.tag = "Err"
        /\ result.tag = "Err" => result.buf = input
        /\ r.tag # "Err" => result = Parse(zero_or_more(call.p), input)
    /\ (Returned /\ call.fn = "zero_or_more") =>
        /\ result.tag = "Ok"
        /\ Parse(call.p, input).tag = "Err" => result = Ok(input, Vec(<<>>))

C6_Witness ==
    /\ Returned /\ call.fn = "one_or_more"
    /\ result.tag = "Ok"
    /\ Len(result.val.items) >= 2
    /\ result.buf # <<>>

\* C7: the remaining input of every success is a suffix of the input, and
\* the loop cursor buf_out is a suffix of the input after every iteration.
C7_RemainingIsSuffix ==
    /\ result.tag = "Ok" => IsSuffix(result.buf, input)
    /\ pc = "loop" => IsSuffix(buf_out, input)

C7_Witness ==
    /\ pc = "loop" /\ Len(v) >= 2
    /\ buf_out # input /\ buf_out # <<>>
    /\ depth = MaxDepth

\* C8: parse_literal(s) succeeds with value s and remaining input i[len(s):]
\* iff i starts with s; otherwise it fails and the failure carries i.
C8_LiteralIffStartsWith ==
    (Returned /\ parser.op = "parse_literal") =>
        LET s == parser.lit IN
        /\ result.tag = "Ok" <=> (\E k \in 0..Len(input) : input = s \o Drop(input, k))
        /\ result.tag = "Ok" => (result.val = Str(s) /\ input = s \o result.buf)
        /\ result.tag # "Ok" => (result.tag = "Err" /\ result.buf = input)

C8_Witness ==
    /\ Returned /\ parser.op = "parse_literal"
    /\ Len(parser.lit) = 2
    /\ result.tag = "Ok"
    /\ result.buf # <<>>

\* C9: on input a ++ x ++ b ++ rest where p, run on x ++ b ++ rest, consumes
\* exactly x with value v, surround(a, b, p) succeeds with value v and
\* remaining input rest; it fails whenever the opening literal, p or the
\* closing literal fails; its result is that of prefix(a, suffix(b, p)).
C9_Surround ==
    (pc \in {"done", "hung"} /\ call.fn = "surround") =>
        LET ra == Parse(parse_literal(call.a), input) IN
        /\ result = Parse(prefix(call.a, suffix(call.b, call.p)), input)
        /\ ra.tag = "Err" => result.tag = "Err"
        /\ ra.tag = "Ok" =>
            LET rp == Parse(call.p, Drop(input, Len(call.a))) IN
            /\ input = call.a \o Drop(input, Len(call.a))
            /\ rp.tag = "Err" => result.tag = "Err"
            /\ rp.tag = "Ok" =>
                /\ Parse(parse_literal(call.b), rp.buf).tag = "Err" => result.tag = "Err"
                /\ StartsWith(rp.buf, call.b) =>
                    result = Ok(Drop(rp.buf, Len(call.b)), rp.val)

C9_Witness ==
    /\ Returned /\ call.fn = "surround"
    /\ result.tag = "Ok"
    /\ Parse(call.p, Drop(input, Len(call.a))).buf # Drop(input, Len(call.a))
    /\ call.a # call.b

\* the maximal leading run of characters that are alphanumeric or '_'
LeadingRun(i) ==
    LET n == CHOOSE k \in 0..Len(i) :
                 /\ \A j \in 1..k : ident_rule(i[j])
                 /\ k < Len(i) => ~ident_rule(i[k + 1])
    IN Take(i, n)

\* C10: parse_identifier succeeds iff the maximal leading run t of
\* alphanumeric-or-'_' characters is non-empty, does not start with a digit
\* and is not one of the keywords; then the value is t and the remaining
\* input is i without t.  A failed scan carries i; a rejection by the digit
\* or keyword check carries the input after t.
C10_Identifier ==
    (Returned /\ parser.op = "parse_identifier") =>
        LET t == LeadingRun(input)
            accepted == /\ t # <<>>
                        /\ t[1] \notin AsciiDigits
                        /\ t \notin {S_true, S_false, S_if, S_eval} IN
        /\ result.tag = "Ok" <=> accepted
        /\ result.tag = "Ok" => result = Ok(Drop(input, Len(t)), Str(t))
        /\ (result.tag = "Err" /\ t = <<>>) => result.buf = input
        /\ (result.tag = "Err" /\ t # <<>>) => result.buf = Drop(input, Len(t))

C10_Witness ==
    /\ Returned /\ parser.op = "parse_identifier"
    /\ input = <<"i", "f", " ">>
    /\ result.tag = "Err"
    /\ result.buf = <<" ">>

====
